---- MODULE Spec2Model ----
(***************************************************************************)
(* Model of the Granola -> Snowflake retrieval pipeline.                   *)
(*                                                                         *)
(*   Spec       the rechunk handler (api/rechunk.js) running as several    *)
(*              concurrent HTTP requests over the MEETINGS and CHUNKS      *)
(*              tables; every awaited store call is one atomic step.       *)
(*   SpecChunk  chunkBySentences (api/rechunk.js) applied to bounded texts. *)
(*   SpecMmr    mmr (the retrieval module) applied to bounded pools.        *)
(*   SpecPool   the scope-then-rank query of retrieveChunks applied to      *)
(*              bounded sets of scored rows.                                *)
(*   SpecAsk    the ask handler and retrieveChunks, one request over a      *)
(*              bounded CHUNKS table; every awaited call is one step.       *)
(*   SpecIngest the ingest handler (both versions in the repository), one   *)
(*              request over the MEETINGS table.                            *)
(***************************************************************************)
EXTENDS Integers, Sequences, FiniteSets, TLC

VARIABLES
    meetings,     \* MEETINGS table: meeting id -> row (or absent)
    chunks,       \* CHUNKS table: set of rows (embed = <<>> is a NULL EMBED_1024)
    nextId,       \* source of fresh CHUNK_ID values (uuidv4)
    embedColumn,  \* TRUE when CHUNKS has the EMBED_1024 column
    faults,       \* number of store calls that have failed so far
    req,          \* request -> local state of its handler invocation
    solo,         \* history: request's current replace overlapped no other replace of the document
    before,       \* history: passages of the document when the request's replace began
    dirty,        \* history: documents a replace of which failed after its delete
    chunkIn,      \* chunkBySentences: [text, targetTokens, overlapTokens]
    chunkOut,     \* chunkBySentences: <<>>, or <<run>> with its chunks and carried seeds,
                  \* or <<run, outcome>> with what processOne then returned for the text
    mmrIn,        \* mmr: [docs, k, lambda]
    mmrOut,       \* mmr: <<>>, or <<chosen>> with the list it returned
    poolIn,       \* retrieveChunks: [rows, k], the scored rows in scope
    poolOut,      \* retrieveChunks: <<>>, or <<rows>> with the set its query returned
    ask,          \* ask handler and retrieveChunks: table, request, position, answer
    ing           \* ingest handler: table, environment, request, position, answer

storeVars == <<meetings, chunks, nextId, embedColumn, faults, req, solo, before, dirty>>
pureVars == <<chunkIn, chunkOut, mmrIn, mmrOut, poolIn, poolOut>>
handlerVars == <<ask, ing>>
vars == <<meetings, chunks, nextId, embedColumn, faults, req, solo, before, dirty,
          chunkIn, chunkOut, mmrIn, mmrOut, poolIn, poolOut, ask, ing>>

----------------------------------------------------------------------------
(* Bounds *)

NumReqs == 2
MaxFaults == 1

(* Program constants *)

BackfillLimit == 200

NULL == "null"

Reqs == 1..NumReqs
MeetingIds == {"m1", "m2"}

\* A transcript is represented by the texts of the chunks chunkBySentences
\* returns for it with the handler's parameters; <<>> is a blank transcript.
Transcripts == {<<>>, <<"a">>, <<"a", "b">>}

Methods == {"POST", "GET", "OPTIONS"}

Bodies ==
    {[kind |-> "none"], [kind |-> "badjson"]}
    \cup {[kind |-> "meeting", meeting_id |-> m] : m \in MeetingIds}
    \cup {[kind |-> "backfill", backfill_since |-> t] : t \in {1, 2}}

----------------------------------------------------------------------------
(* Sequence helpers *)

Range(s) == {s[i] : i \in DOMAIN s}

\* All orderings of the finite set S as sequences without repetition.
Orderings(S) ==
    {s \in [1..Cardinality(S) -> S] : \A i, j \in 1..Cardinality(S) : i # j => s[i] # s[j]}

SeqPrefix(s, n) == IF Len(s) <= n THEN s ELSE SubSeq(s, 1, n)

----------------------------------------------------------------------------
(* rechunk.js: pure parts of processOne / insertChunks *)

\* processOne: `!t || !String(t).trim()`
IsBlankTranscript(t) == t = NULL \/ t = <<>>

\* processOne: chunkBySentences(String(t), 1000, 150), on the representation
\* of transcripts above: chunk i has section id i and a title derived from its text.
ChunkListOf(t) ==
    [i \in 1..Len(t) |->
        [text |-> t[i], sectionId |-> i, sectionTitle |-> t[i], tokenCount |-> 1]]

\* insertChunks: header fields read from the MEETINGS row, with their fallbacks.
MeetingHeaderFields(row) ==
    [meetingTitle |-> IF row.title = NULL THEN "Unknown Meeting" ELSE row.title,
     meetingDate  |-> IF row.datetime = NULL THEN "Unknown Date" ELSE row.datetime,
     customer     |-> IF row.participants = <<>> THEN "Unknown Customer"
                      ELSE row.participants[1]]

\* insertChunks: `${header}\n${chunk.text}` with
\* header = [Meeting | Customer | Date | Section | t=idx].
HeaderizedText(meta, chunk, idx) ==
    <<meta.meetingTitle, meta.customer, meta.meetingDate, chunk.sectionTitle, idx, chunk.text>>

\* insertChunks: sha1 hex digest, taken as collision free.
ContentHash(headerizedText) == <<"sha1", headerizedText>>

\* The row insertChunks writes for `chunk` at index idx.
NewRow(id, meetingId, meta, chunk, idx) ==
    [id |-> id, meeting |-> meetingId, idx |-> idx,
     text |-> HeaderizedText(meta, chunk, idx),
     meetingTitle |-> meta.meetingTitle, meetingDate |-> meta.meetingDate,
     customer |-> meta.customer,
     sectionId |-> chunk.sectionId, sectionTitle |-> chunk.sectionTitle,
     tokenCount |-> chunk.tokenCount,
     hash |-> ContentHash(HeaderizedText(meta, chunk, idx)),
     embed |-> <<>>]

----------------------------------------------------------------------------
(* Store queries *)

RowsOf(m) == {c \in chunks : c.meeting = m}

\* Content of a stored passage: everything but its id and its vector.
PassageContent(c) ==
    [meeting |-> c.meeting, idx |-> c.idx, text |-> c.text, sectionId |-> c.sectionId,
     sectionTitle |-> c.sectionTitle, tokenCount |-> c.tokenCount, hash |-> c.hash]

Stored(m) == {PassageContent(c) : c \in RowsOf(m)}

\* The passages one uninterrupted insertChunks stores for meeting m.
Built(m) ==
    LET row  == meetings[m]
        list == ChunkListOf(row.transcript)
    IN  {PassageContent(NewRow(0, m, MeetingHeaderFields(row), list[i], i - 1)) :
            i \in 1..Len(list)}

\* A delete that removes nothing.
DeleteNothing(m) == chunks

\* DELETE FROM CHUNKS WHERE MEETING_ID = ?: the table afterwards.
DeleteResult(m) == chunks \ RowsOf(m)

\* handler: select MEETING_ID from MEETINGS where CREATED_AT >= ? order by
\* CREATED_AT desc limit 200.  Rows with equal CREATED_AT come in any order.
BackfillRows(since) ==
    LET sel == {m \in MeetingIds : meetings[m].present /\ meetings[m].createdAt >= since}
    IN  {SeqPrefix(s, BackfillLimit) : s \in
            {o \in Orderings(sel) :
                \A i, j \in 1..Len(o) :
                    i < j => meetings[o[i]].createdAt >= meetings[o[j]].createdAt}}

----------------------------------------------------------------------------
(* Request-local state *)

IdleReq ==
    [pc |-> "idle", kind |-> "none", since |-> 0, selected |-> <<>>, todo |-> <<>>,
     list |-> <<>>, meta |-> NULL, pos |-> 1, idx |-> 0, results |-> <<>>,
     status |-> 0, detail |-> NULL, conn |-> "none"]

ReplacePcs == {"meta", "delete", "check", "insert", "embed"}

\* The `detail` of a 500 answer caused by a failed call of insertChunks.
ReplaceFailures == {"meta", "delete", "check", "insert", "embed"}

\* Request r is inside insertChunks (replace) of meeting m.
InReplace(r, m) == req[r].pc \in ReplacePcs /\ req[r].todo # <<>> /\ Head(req[r].todo) = m

\* Request r answered 500 because its insertChunks of meeting m failed.
FailedInReplace(r, m) ==
    /\ req[r].pc = "done" /\ req[r].status = 500 /\ req[r].detail \in ReplaceFailures
    /\ req[r].todo # <<>> /\ Head(req[r].todo) = m

Respond(rq, status, detail) ==
    [rq EXCEPT !.pc = "done", !.status = status, !.detail = detail]

\* processOne returned `res`: push it and go on with the next document, or answer 200.
Advance(rq, res) ==
    LET rest == Tail(rq.todo)
        nrq  == [rq EXCEPT !.results = Append(rq.results, res), !.todo = rest,
                           !.list = <<>>, !.meta = NULL, !.pos = 1, !.idx = 0]
    IN  IF rest = <<>> THEN Respond(nrq, 200, NULL) ELSE [nrq EXCEPT !.pc = "fetch"]

\* insertChunks after its loop: embed when something was inserted, else return idx.
AfterLoop(rq) ==
    IF rq.idx > 0 THEN [rq EXCEPT !.pc = "embed"]
    ELSE Advance(rq, [meeting_id |-> Head(rq.todo), chunks |-> rq.idx, skipped |-> NULL])

\* insertChunks loop: next chunk, or leave the loop.
NextChunk(rq) ==
    IF rq.pos < Len(rq.list) THEN [rq EXCEPT !.pos = rq.pos + 1, !.pc = "check"]
    ELSE AfterLoop([rq EXCEPT !.pos = rq.pos + 1])

Fault(ok) ==
    /\ ok \/ faults < MaxFaults
    /\ faults' = IF ok THEN faults ELSE faults + 1

----------------------------------------------------------------------------
(* Init *)

MeetingRows(m) ==
    {[present |-> FALSE, title |-> NULL, datetime |-> NULL, participants |-> <<>>,
      transcript |-> NULL, createdAt |-> 0]}
    \cup {[present |-> TRUE, title |-> m, datetime |-> "2024-01-01",
           participants |-> <<"acme">>, transcript |-> t,
           createdAt |-> IF m = "m1" THEN 1 ELSE 2] : t \in Transcripts}

\* No ask or ingest request is being handled.
HandlersIdle == ask = NULL /\ ing = NULL

\* No pure function is being applied.
PureIdle ==
    /\ chunkIn = NULL /\ chunkOut = <<>>
    /\ mmrIn = NULL /\ mmrOut = <<>>
    /\ poolIn = NULL /\ poolOut = <<>>

Init ==
    /\ PureIdle
    /\ HandlersIdle
    /\ meetings \in {f \in [MeetingIds -> UNION {MeetingRows(m) : m \in MeetingIds}] :
                        \A m \in MeetingIds : f[m] \in MeetingRows(m)}
    /\ chunks = {}
    /\ nextId = 1
    /\ embedColumn \in BOOLEAN
    /\ faults = 0
    /\ req = [r \in Reqs |-> IdleReq]
    /\ solo = [r \in Reqs |-> TRUE]
    /\ before = [r \in Reqs |-> {}]
    /\ dirty = [m \in MeetingIds |-> FALSE]

----------------------------------------------------------------------------
(* rechunk.js handler, one action per awaited call *)

\* handler up to `await getConn()`: OPTIONS, method, auth and body checks.
Receive(r) ==
    /\ req[r].pc = "idle"
    /\ \E method \in Methods, auth \in BOOLEAN, body \in Bodies :
        req' = [req EXCEPT ![r] =
            IF method = "OPTIONS" THEN Respond(@, 200, "preflight")
            ELSE IF method # "POST" THEN Respond(@, 405, "method_not_allowed")
            ELSE IF ~auth THEN Respond(@, 401, "unauthorized")
            ELSE IF body.kind = "badjson" THEN Respond(@, 500, "rechunk_failed")
            ELSE IF body.kind = "none" THEN Respond(@, 400, "missing_arg")
            ELSE IF body.kind = "meeting"
                 THEN [@ EXCEPT !.pc = "connect", !.kind = "meeting",
                                !.todo = <<body.meeting_id>>]
            ELSE [@ EXCEPT !.pc = "connect", !.kind = "backfill",
                           !.since = body.backfill_since]]
    /\ UNCHANGED <<meetings, chunks, nextId, embedColumn, faults, solo, before, dirty>>
    /\ UNCHANGED <<pureVars, handlerVars>>

\* getConn; the handler has no conn.destroy() on any path.
Connect(r) ==
    /\ req[r].pc = "connect"
    /\ \E ok \in BOOLEAN :
        /\ Fault(ok)
        /\ req' = [req EXCEPT ![r] =
                IF ok THEN [@ EXCEPT !.pc = "ensure", !.conn = "open"]
                ELSE Respond(@, 500, "connect")]
    /\ UNCHANGED <<meetings, chunks, nextId, embedColumn, solo, before, dirty>>
    /\ UNCHANGED <<pureVars, handlerVars>>

\* ensureEmbed1024Column: the INFORMATION_SCHEMA query
EnsureCheck(r) ==
    /\ req[r].pc = "ensure"
    /\ \E ok \in BOOLEAN :
        /\ Fault(ok)
        /\ req' = [req EXCEPT ![r] =
                IF ~ok THEN Respond(@, 500, "ensure")
                ELSE IF ~embedColumn THEN [@ EXCEPT !.pc = "alter"]
                ELSE IF @.kind = "meeting" THEN [@ EXCEPT !.pc = "fetch"]
                ELSE [@ EXCEPT !.pc = "listing"]]
    /\ UNCHANGED <<meetings, chunks, nextId, embedColumn, solo, before, dirty>>
    /\ UNCHANGED <<pureVars, handlerVars>>

\* ensureEmbed1024Column: ALTER TABLE CHUNKS ADD COLUMN (fails when the column exists)
EnsureAlter(r) ==
    /\ req[r].pc = "alter"
    /\ \E ok \in BOOLEAN :
        /\ Fault(ok)
        /\ IF ok /\ ~embedColumn
           THEN /\ embedColumn' = TRUE
                /\ req' = [req EXCEPT ![r] =
                        IF @.kind = "meeting" THEN [@ EXCEPT !.pc = "fetch"]
                        ELSE [@ EXCEPT !.pc = "listing"]]
           ELSE /\ UNCHANGED embedColumn
                /\ req' = [req EXCEPT ![r] = Respond(@, 500, "alter")]
    /\ UNCHANGED <<meetings, chunks, nextId, solo, before, dirty>>
    /\ UNCHANGED <<pureVars, handlerVars>>

\* handler: the backfill query for the meeting ids
ListMeetings(r) ==
    /\ req[r].pc = "listing"
    /\ \E ok \in BOOLEAN :
        /\ Fault(ok)
        /\ IF ~ok THEN req' = [req EXCEPT ![r] = Respond(@, 500, "list")]
           ELSE \E rows \in BackfillRows(req[r].since) :
                req' = [req EXCEPT ![r] =
                    IF rows = <<>> THEN Respond(@, 200, NULL)
                    ELSE [@ EXCEPT !.pc = "fetch", !.todo = rows, !.selected = rows]]
    /\ UNCHANGED <<meetings, chunks, nextId, embedColumn, solo, before, dirty>>
    /\ UNCHANGED <<pureVars, handlerVars>>

\* A lookup that finds a row for every meeting id.
MeetingAlwaysKnown(m) == TRUE

\* fetchTranscript: rows.length of SELECT TRANSCRIPT ... WHERE MEETING_ID = ?
MeetingKnown(m) == meetings[m].present

\* processOne: fetchTranscript, then the blank check, chunkBySentences and the
\* first query of insertChunks being issued.
FetchTranscript(r) ==
    /\ req[r].pc = "fetch"
    /\ LET m == Head(req[r].todo) IN
       \E ok \in BOOLEAN :
        /\ Fault(ok)
        /\ IF ~ok THEN
                /\ req' = [req EXCEPT ![r] = Respond(@, 500, "fetch")]
                /\ UNCHANGED <<solo, before>>
           ELSE IF ~MeetingKnown(m) THEN
                /\ req' = [req EXCEPT ![r] = Respond(@, 500, "meeting_not_found")]
                /\ UNCHANGED <<solo, before>>
           ELSE IF IsBlankTranscript(meetings[m].transcript) THEN
                /\ req' = [req EXCEPT ![r] =
                        Advance(@, [meeting_id |-> m, chunks |-> 0,
                                    skipped |-> "empty_transcript"])]
                /\ UNCHANGED <<solo, before>>
           ELSE /\ req' = [req EXCEPT ![r] =
                        [@ EXCEPT !.pc = "meta",
                                  !.list = ChunkListOf(meetings[m].transcript)]]
                /\ solo' = [q \in Reqs |->
                        IF q = r THEN \A o \in Reqs \ {r} : ~InReplace(o, m)
                        ELSE IF InReplace(q, m) \/ FailedInReplace(q, m) THEN FALSE
                        ELSE solo[q]]
                /\ before' = [before EXCEPT ![r] = Stored(m)]
    /\ UNCHANGED <<meetings, chunks, nextId, embedColumn, dirty>>
    /\ UNCHANGED <<pureVars, handlerVars>>

\* insertChunks: SELECT TITLE, DATETIME, PARTICIPANTS
FetchMeta(r) ==
    /\ req[r].pc = "meta"
    /\ LET m == Head(req[r].todo) IN
       \E ok \in BOOLEAN :
        /\ Fault(ok)
        /\ req' = [req EXCEPT ![r] =
                IF ~ok THEN Respond(@, 500, "meta")
                ELSE IF ~meetings[m].present THEN Respond(@, 500, "meeting_not_found")
                ELSE [@ EXCEPT !.pc = "delete", !.meta = MeetingHeaderFields(meetings[m])]]
    /\ UNCHANGED <<meetings, chunks, nextId, embedColumn, solo, before, dirty>>
    /\ UNCHANGED <<pureVars, handlerVars>>

\* insertChunks: DELETE FROM CHUNKS WHERE MEETING_ID = ?
DeleteChunks(r) ==
    /\ req[r].pc = "delete"
    /\ LET m == Head(req[r].todo) IN
       \E ok \in BOOLEAN :
        /\ Fault(ok)
        /\ IF ok THEN
                /\ chunks' = DeleteResult(m)
                /\ req' = [req EXCEPT ![r] =
                        IF @.list = <<>> THEN AfterLoop([@ EXCEPT !.idx = 0])
                        ELSE [@ EXCEPT !.pc = "check", !.idx = 0, !.pos = 1]]
           ELSE /\ UNCHANGED chunks
                /\ req' = [req EXCEPT ![r] = Respond(@, 500, "delete")]
    /\ UNCHANGED <<meetings, nextId, embedColumn, solo, before, dirty>>
    /\ UNCHANGED <<pureVars, handlerVars>>

\* insertChunks: SELECT COUNT(*) ... WHERE MEETING_ID = ? AND CONTENT_HASH = ?
CheckHash(r) ==
    /\ req[r].pc = "check"
    /\ LET m     == Head(req[r].todo)
           chunk == req[r].list[req[r].pos]
           hash  == ContentHash(HeaderizedText(req[r].meta, chunk, req[r].idx))
       IN
       \E ok \in BOOLEAN :
        /\ Fault(ok)
        /\ req' = [req EXCEPT ![r] =
                IF ~ok THEN Respond(@, 500, "check")
                ELSE IF \E c \in RowsOf(m) : c.hash = hash THEN NextChunk(@)
                ELSE [@ EXCEPT !.pc = "insert"]]
        /\ dirty' = IF ok THEN dirty ELSE [dirty EXCEPT ![m] = TRUE]
    /\ UNCHANGED <<meetings, chunks, nextId, embedColumn, solo, before>>
    /\ UNCHANGED <<pureVars, handlerVars>>

\* insertChunks: INSERT INTO CHUNKS ..., then idx += 1
InsertChunk(r) ==
    /\ req[r].pc = "insert"
    /\ LET m     == Head(req[r].todo)
           chunk == req[r].list[req[r].pos]
       IN
       \E ok \in BOOLEAN :
        /\ Fault(ok)
        /\ IF ok THEN
                /\ chunks' = chunks \cup {NewRow(nextId, m, req[r].meta, chunk, req[r].idx)}
                /\ nextId' = nextId + 1
                /\ req' = [req EXCEPT ![r] = NextChunk([@ EXCEPT !.idx = @ + 1])]
                /\ UNCHANGED dirty
           ELSE /\ UNCHANGED <<chunks, nextId>>
                /\ req' = [req EXCEPT ![r] = Respond(@, 500, "insert")]
                /\ dirty' = [dirty EXCEPT ![m] = TRUE]
    /\ UNCHANGED <<meetings, embedColumn, solo, before>>
    /\ UNCHANGED <<pureVars, handlerVars>>

\* Every row of meeting m, whatever its vector.
EmbedTargetsAll(m) == {c \in chunks : c.meeting = m}

\* Every row without a vector, whatever its meeting.
EmbedTargetsAnyMeeting(m) == {c \in chunks : c.embed = <<>>}

\* WHERE MEETING_ID = ? AND EMBED_1024 IS NULL
EmbedTargets(m) == {c \in chunks : c.meeting = m /\ c.embed = <<>>}

\* AI_EMBED(model, TEXT) stored in row c: the vector of its text, with the
\* number of times a vector has been computed for the row (history).
Embedded(c) == <<"vec", c.text, (IF c.embed = <<>> THEN 0 ELSE c.embed[3]) + 1>>

\* insertChunks: UPDATE CHUNKS SET EMBED_1024 = AI_EMBED(...) WHERE MEETING_ID = ?
\* AND EMBED_1024 IS NULL; then `return idx`.
EmbedChunks(r) ==
    /\ req[r].pc = "embed"
    /\ LET m == Head(req[r].todo) IN
       \E ok \in BOOLEAN :
        /\ Fault(ok)
        /\ IF ok THEN
                /\ chunks' = {IF c \in EmbedTargets(m)
                              THEN [c EXCEPT !.embed = Embedded(c)] ELSE c : c \in chunks}
                /\ req' = [req EXCEPT ![r] =
                        Advance(@, [meeting_id |-> m, chunks |-> @.idx, skipped |-> NULL])]
                /\ UNCHANGED dirty
           ELSE /\ UNCHANGED chunks
                /\ req' = [req EXCEPT ![r] = Respond(@, 500, "embed")]
                /\ dirty' = [dirty EXCEPT ![m] = TRUE]
    /\ UNCHANGED <<meetings, nextId, embedColumn, solo, before>>
    /\ UNCHANGED <<pureVars, handlerVars>>

Next ==
    \E r \in Reqs :
        \/ Receive(r)
        \/ Connect(r)
        \/ EnsureCheck(r)
        \/ EnsureAlter(r)
        \/ ListMeetings(r)
        \/ FetchTranscript(r)
        \/ FetchMeta(r)
        \/ DeleteChunks(r)
        \/ CheckHash(r)
        \/ InsertChunk(r)
        \/ EmbedChunks(r)

Spec == Init /\ [][Next]_vars

----------------------------------------------------------------------------
(* The store left untouched while a pure function is applied *)

StoreIdle ==
    /\ meetings = [m \in MeetingIds |->
            [present |-> FALSE, title |-> NULL, datetime |-> NULL, participants |-> <<>>,
             transcript |-> NULL, createdAt |-> 0]]
    /\ chunks = {}
    /\ nextId = 1
    /\ embedColumn = TRUE
    /\ faults = 0
    /\ req = [r \in Reqs |-> IdleReq]
    /\ solo = [r \in Reqs |-> TRUE]
    /\ before = [r \in Reqs |-> {}]
    /\ dirty = [m \in MeetingIds |-> FALSE]

----------------------------------------------------------------------------
(* rechunk.js: chunkBySentences.  A text is a sequence of characters; "a" is *)
(* a lower-case letter, "B" a character of the class [A-Z0-9"'(], "." one of *)
(* [.!?] and " " white space.                                               *)

MaxTextLen == 6
MaxTarget == 2
MaxOverlap == 2

CharsPerToken == 4
TitleMax == 50
RechunkTarget == 1000
RechunkOverlap == 150

Alphabet == {"a", "B", ".", " "}

IsSpace(c) == c = " "
IsPunct(c) == c = "."
IsSentenceStart(c) == c = "B"

Min(a, b) == IF a < b THEN a ELSE b
Max(a, b) == IF a > b THEN a ELSE b

\* String.prototype.slice(from, to) for 0 <= from.
Slice(str, from, to) ==
    IF from >= Min(to, Len(str)) THEN <<>> ELSE SubSeq(str, from + 1, Min(to, Len(str)))

RECURSIVE TrimStart(_)
TrimStart(str) ==
    IF str # <<>> /\ IsSpace(Head(str)) THEN TrimStart(Tail(str)) ELSE str

RECURSIVE TrimEnd(_)
TrimEnd(str) ==
    IF str # <<>> /\ IsSpace(str[Len(str)]) THEN TrimEnd(SubSeq(str, 1, Len(str) - 1)) ELSE str

\* A trim that removes nothing.
TrimNothing(str) == str

\* String.prototype.trim
Trim(str) == TrimEnd(TrimStart(str))

\* An estimate of one token per character.
EstimateTokensPerChar(str) == Len(str)

\* estimateTokens: Math.ceil(str.length / 4)
EstimateTokens(str) == (Len(str) + CharsPerToken - 1) \div CharsPerToken

\* Last index of the run of white space that starts at index i.
RECURSIVE SpaceRunEnd(_, _)
SpaceRunEnd(src, i) ==
    IF i < Len(src) /\ IsSpace(src[i + 1]) THEN SpaceRunEnd(src, i + 1) ELSE i

\* /(?<=[\.\!\?])\s+(?=[A-Z0-9"'(])/ matches at index i: white space that
\* follows a sentence end and runs up to a sentence start.
SeparatorAt(src, i) ==
    /\ i > 1 /\ i <= Len(src)
    /\ IsSpace(src[i]) /\ IsPunct(src[i - 1])
    /\ SpaceRunEnd(src, i) < Len(src)
    /\ IsSentenceStart(src[SpaceRunEnd(src, i) + 1])

\* src.split(separator): the pieces from index i on, `piece` being the one in progress.
RECURSIVE SplitFrom(_, _, _)
SplitFrom(src, i, piece) ==
    IF i > Len(src) THEN <<piece>>
    ELSE IF SeparatorAt(src, i)
         THEN <<piece>> \o SplitFrom(src, SpaceRunEnd(src, i) + 1, <<>>)
    ELSE SplitFrom(src, i + 1, Append(piece, src[i]))

SplitSentences(src) == SplitFrom(src, 1, <<>>)

\* buf.split(/[.!?]/)[0]
RECURSIVE BeforePunct(_)
BeforePunct(str) ==
    IF str = <<>> \/ IsPunct(Head(str)) THEN <<>> ELSE <<Head(str)>> \o BeforePunct(Tail(str))

\* The section title of a buffer: its first sentence, cut at 50 characters.
SectionTitleOf(buf) ==
    LET firstSentence == Trim(BeforePunct(buf))
    IN  IF Len(firstSentence) > TitleMax
        THEN Slice(firstSentence, 0, TitleMax) \o <<".", ".", ".">>
        ELSE firstSentence

\* flushIfNeeded: the text of the chunk emitted for buffer buf.
FlushText(buf, targetTokens) == Slice(buf, 0, targetTokens * CharsPerToken)

\* flushIfNeeded: the overlap kept for the next chunk.
FlushTail(buf, overlapTokens) ==
    Slice(buf, Max(0, Len(buf) - overlapTokens * CharsPerToken), Len(buf))

\* The for loop over the sentences from index k on, then the final flush.
\* st = [buf, sectionId, chunks, seed, seeds, steps]: seed is the overlap the
\* current buffer started from, seeds[i] the one chunk i started from and
\* steps the number of iterations of the loop so far (history).
RECURSIVE ChunkLoop(_, _, _, _, _)
ChunkLoop(sentences, k, st, targetTokens, overlapTokens) ==
    IF k > Len(sentences) THEN
        IF Trim(st.buf) # <<>>
        THEN [st EXCEPT
                !.chunks = Append(@, [text |-> Trim(st.buf), sectionId |-> st.sectionId,
                                      sectionTitle |-> SectionTitleOf(st.buf),
                                      tokenCount |-> EstimateTokens(st.buf)]),
                !.seeds = Append(@, st.seed)]
        ELSE st
    ELSE
        LET piece == Trim(sentences[k]) IN
        IF piece = <<>>
        THEN ChunkLoop(sentences, k + 1, [st EXCEPT !.steps = @ + 1],
                       targetTokens, overlapTokens)
        ELSE
            LET buf == IF st.buf = <<>> THEN piece ELSE st.buf \o <<" ">> \o piece IN
            IF EstimateTokens(buf) >= targetTokens
            THEN ChunkLoop(sentences, k + 1,
                    [buf |-> FlushTail(buf, overlapTokens),
                     sectionId |-> st.sectionId + 1,
                     chunks |-> Append(st.chunks,
                        [text |-> FlushText(buf, targetTokens), sectionId |-> st.sectionId,
                         sectionTitle |-> SectionTitleOf(buf),
                         tokenCount |-> EstimateTokens(buf)]),
                     seed |-> FlushTail(buf, overlapTokens),
                     seeds |-> Append(st.seeds, st.seed),
                     steps |-> st.steps + 1],
                    targetTokens, overlapTokens)
            ELSE ChunkLoop(sentences, k + 1, [st EXCEPT !.buf = buf, !.steps = @ + 1],
                           targetTokens, overlapTokens)

ChunkRun(text, targetTokens, overlapTokens) ==
    ChunkLoop(SplitSentences(text), 1,
              [buf |-> <<>>, sectionId |-> 1, chunks |-> <<>>, seed |-> <<>>, seeds |-> <<>>,
               steps |-> 0],
              targetTokens, overlapTokens)

ChunkBySentences(text, targetTokens, overlapTokens) ==
    ChunkRun(text, targetTokens, overlapTokens).chunks

Texts == UNION {[1..n -> Alphabet] : n \in 0..MaxTextLen}

InitChunk ==
    /\ StoreIdle
    /\ HandlersIdle
    /\ chunkIn \in [text : Texts, targetTokens : 0..MaxTarget, overlapTokens : 0..MaxOverlap]
    /\ chunkOut = <<>>
    /\ mmrIn = NULL /\ mmrOut = <<>>
    /\ poolIn = NULL /\ poolOut = <<>>

CallChunkBySentences ==
    /\ chunkOut = <<>>
    /\ chunkOut' = <<ChunkRun(chunkIn.text, chunkIn.targetTokens, chunkIn.overlapTokens)>>
    /\ UNCHANGED <<chunkIn, mmrIn, mmrOut, poolIn, poolOut>>
    /\ UNCHANGED <<storeVars, handlerVars>>

\* processOne for a fetched transcript t: the blank check, then
\* chunkBySentences with the handler's parameters; insertChunks returns the
\* number of chunks when it inserts them all.
ProcessOne(id, t) ==
    IF Trim(t) = <<>>
    THEN [meeting_id |-> id, chunks |-> 0, skipped |-> "empty_transcript"]
    ELSE [meeting_id |-> id, chunks |-> Len(ChunkBySentences(t, RechunkTarget, RechunkOverlap)),
          skipped |-> NULL]

CallProcessOne ==
    /\ Len(chunkOut) = 1
    /\ chunkOut' = Append(chunkOut, ProcessOne("m1", chunkIn.text))
    /\ UNCHANGED <<chunkIn, mmrIn, mmrOut, poolIn, poolOut>>
    /\ UNCHANGED <<storeVars, handlerVars>>

NextChunkSpec ==
    \/ CallChunkBySentences
    \/ CallProcessOne

SpecChunk == InitChunk /\ [][NextChunkSpec]_vars

----------------------------------------------------------------------------
(* Retrieval: mmr.  Relevance (sim) is in hundredths, lambda in tenths,     *)
(* cosine similarity in hundredths and a score in thousandths.  Vectors     *)
(* are non-zero and of one dimension, as retrieveChunks passes them.        *)

MaxPool == 3
MaxK == 3

Vectors == {<<5, 0>>, <<0, 5>>, <<3, 4>>, <<4, 3>>}
Relevances == {0, 10, 90}
Lambdas == {3, 7, 10}

\* dot: a.reduce((s, ai, i) => s + ai * b[i], 0)
RECURSIVE DotFrom(_, _, _)
DotFrom(a, b, i) == IF i > Len(a) THEN 0 ELSE a[i] * b[i] + DotFrom(a, b, i + 1)

Dot(a, b) == DotFrom(a, b, 1)

\* norm: Math.hypot(...v), exact on Vectors
Norm(v) == CHOOSE n \in 0..Dot(v, v) : n * n = Dot(v, v)

\* cos: dot(a, b) / (norm(a) * norm(b)), in hundredths
Cos(a, b) == (100 * Dot(a, b)) \div (Norm(a) * Norm(b))

\* Math.max(...chosen.map(c => cos(d.vec, c.vec))) for a non-empty chosen list
RECURSIVE MaxCos(_, _, _)
MaxCos(d, chosen, i) ==
    IF i = Len(chosen) THEN Cos(d.vec, chosen[i].vec)
    ELSE Max(Cos(d.vec, chosen[i].vec), MaxCos(d, chosen, i + 1))

SimToChosen(d, chosen) == IF chosen # <<>> THEN MaxCos(d, chosen, 1) ELSE 0

\* A score without the redundancy term.
MmrScoreRelevanceOnly(d, chosen, lambda) == lambda * d.sim

\* score = lambda * simQ - (1 - lambda) * simToChosen
MmrScore(d, chosen, lambda) == lambda * d.sim - (10 - lambda) * SimToChosen(d, chosen)

\* An inner loop that takes the later of two equal scores.
RECURSIVE BestFromLatest(_, _, _, _, _)
BestFromLatest(pool, chosen, lambda, i, best) ==
    IF i > Len(pool) THEN best
    ELSE IF best = 0 \/ lambda * pool[i].sim - (10 - lambda) * SimToChosen(pool[i], chosen)
                        >= lambda * pool[best].sim
                           - (10 - lambda) * SimToChosen(pool[best], chosen)
         THEN BestFromLatest(pool, chosen, lambda, i + 1, i)
    ELSE BestFromLatest(pool, chosen, lambda, i + 1, best)

\* The inner for loop: the first candidate of pool with the greatest score
\* (`score > best` keeps the earlier of two equal scores); 0 when pool is empty.
RECURSIVE BestFrom(_, _, _, _, _)
BestFrom(pool, chosen, lambda, i, best) ==
    IF i > Len(pool) THEN best
    ELSE IF best = 0 \/ MmrScore(pool[i], chosen, lambda) > MmrScore(pool[best], chosen, lambda)
         THEN BestFrom(pool, chosen, lambda, i + 1, i)
    ELSE BestFrom(pool, chosen, lambda, i + 1, best)

\* pool.findIndex(x => x.CHUNK_ID === id); 0 when there is none
RECURSIVE FindIndex(_, _, _)
FindIndex(pool, id, i) ==
    IF i > Len(pool) THEN 0
    ELSE IF pool[i].CHUNK_ID = id THEN i
    ELSE FindIndex(pool, id, i + 1)

\* pool.splice(idx, 1)
Splice(pool, idx) ==
    [i \in 1..(Len(pool) - 1) |-> IF i < idx THEN pool[i] ELSE pool[i + 1]]

\* while (chosen.length < Math.min(k, pool.length)) { ... }: pool shrinks as
\* candidates move to chosen.
RECURSIVE MmrLoop(_, _, _, _)
MmrLoop(pool, chosen, k, lambda) ==
    IF ~(Len(chosen) < Min(k, Len(pool))) THEN chosen
    ELSE LET best == BestFrom(pool, chosen, lambda, 1, 0) IN
         IF best = 0 THEN chosen
         ELSE LET idx == FindIndex(pool, pool[best].CHUNK_ID, 1) IN
              MmrLoop(IF idx >= 1 THEN Splice(pool, idx) ELSE pool,
                      Append(chosen, pool[best]), k, lambda)

Mmr(docs, k, lambda) == MmrLoop(docs, <<>>, k, lambda)

\* Pools of n candidates with the pairwise distinct ids 1..n.
PoolsOf(n) ==
    {[i \in 1..n |-> [CHUNK_ID |-> i, sim |-> f[i][1], vec |-> f[i][2]]] :
        f \in [1..n -> Relevances \X Vectors]}

InitMmr ==
    /\ StoreIdle
    /\ HandlersIdle
    /\ chunkIn = NULL /\ chunkOut = <<>>
    /\ poolIn = NULL /\ poolOut = <<>>
    /\ \E n \in 1..MaxPool : \E docs \in PoolsOf(n) : \E k \in 1..MaxK : \E lambda \in Lambdas :
            mmrIn = [docs |-> docs, k |-> k, lambda |-> lambda]
    /\ mmrOut = <<>>

CallMmr ==
    /\ mmrOut = <<>>
    /\ mmrOut' = <<Mmr(mmrIn.docs, mmrIn.k, mmrIn.lambda)>>
    /\ UNCHANGED <<chunkIn, chunkOut, mmrIn, poolIn, poolOut>>
    /\ UNCHANGED <<storeVars, handlerVars>>

NextMmr == CallMmr

SpecMmr == InitMmr /\ [][NextMmr]_vars

----------------------------------------------------------------------------
(* Retrieval: the scope-then-rank query of retrieveChunks.  A scored        *)
(* row is [id, meeting, sim, kw]: sim and the keyword bonus in hundredths.  *)

MaxRowsA == 7
MaxRowsB == 2
MaxPoolK == 3

PerDocCap == 6
OverfetchFactor == 3
OverfetchMax == 50

\* RERANK: (sim + kw_bonus) AS score
Score(row) == row.sim + row.kw

\* The sets a `ORDER BY score DESC` query may return as the first n rows of
\* S: every row above the n-th score, and any of the rows equal to it.
TopByScore(S, n) ==
    IF Cardinality(S) <= n THEN {S}
    ELSE LET cut   == CHOOSE c \in {Score(x) : x \in S} :
                        /\ Cardinality({x \in S : Score(x) > c}) < n
                        /\ Cardinality({x \in S : Score(x) >= c}) >= n
             above == {x \in S : Score(x) > cut}
             ties  == {x \in S : Score(x) = cut}
         IN  {above \cup T : T \in {U \in SUBSET ties : Cardinality(U) = n - Cardinality(above)}}

\* A per-document choice that keeps every row.
QualifyAll(rows, choice) == rows

\* QUALIFY ROW_NUMBER() OVER (PARTITION BY MEETING_ID ORDER BY score DESC) <= 6,
\* choice[m] being the rows of meeting m numbered 1..6.
Qualify(rows, choice) == {x \in rows : x \in choice[x.meeting]}

\* Math.min(k * 3, 50)
FetchLimit(k) == Min(k * OverfetchFactor, OverfetchMax)

PoolMeetings == {"A", "B"}

RowValues == {[sim |-> 50, kw |-> 0], [sim |-> 50, kw |-> 5], [sim |-> 90, kw |-> 0]}

\* The rows of one meeting, given the list of their values.
RowsFrom(m, vals) ==
    {[id |-> <<m, i>>, meeting |-> m, sim |-> vals[i].sim, kw |-> vals[i].kw] :
        i \in 1..Len(vals)}

\* Lists of at most n row values, in non-increasing order of score.
ValueLists(n) ==
    UNION {{f \in [1..len -> RowValues] :
                \A i \in 1..(len - 1) : Score(f[i]) >= Score(f[i + 1])} : len \in 0..n}

\* Meeting A scoring 0.9 .. 0.3 and meeting B scoring 0.65.
ExampleScoresA == <<90, 80, 70, 60, 50, 40, 30>>

ExampleRows ==
    RowsFrom("A", [i \in 1..Len(ExampleScoresA) |-> [sim |-> ExampleScoresA[i], kw |-> 0]])
    \cup RowsFrom("B", <<[sim |-> 65, kw |-> 0]>>)

InitPool ==
    /\ StoreIdle
    /\ HandlersIdle
    /\ chunkIn = NULL /\ chunkOut = <<>>
    /\ mmrIn = NULL /\ mmrOut = <<>>
    /\ \E k \in 1..MaxPoolK :
        \/ \E a \in ValueLists(MaxRowsA), b \in ValueLists(MaxRowsB) :
                poolIn = [rows |-> RowsFrom("A", a) \cup RowsFrom("B", b), k |-> k]
        \/ poolIn = [rows |-> ExampleRows, k |-> k]
    /\ poolOut = <<>>

\* retrieveChunks: exec(conn, scopeSQL, scopeBinds) on the rows in scope.
QueryPool ==
    /\ poolOut = <<>>
    /\ \E ca \in TopByScore({x \in poolIn.rows : x.meeting = "A"}, PerDocCap),
          cb \in TopByScore({x \in poolIn.rows : x.meeting = "B"}, PerDocCap) :
        LET choice == [m \in PoolMeetings |-> IF m = "A" THEN ca ELSE cb] IN
        \E out \in TopByScore(Qualify(poolIn.rows, choice), FetchLimit(poolIn.k)) :
            poolOut' = <<out>>
    /\ UNCHANGED <<chunkIn, chunkOut, mmrIn, mmrOut, poolIn>>
    /\ UNCHANGED <<storeVars, handlerVars>>

NextPool == QueryPool

SpecPool == InitPool /\ [][NextPool]_vars

----------------------------------------------------------------------------
(* The ask handler and retrieveChunks.  A CHUNKS row is                     *)
(* [CHUNK_ID, meeting, title, customer, words, sim, vec]: `words` are the   *)
(* terms its TEXT or SECTION_TITLE contains, `sim` its similarity to the    *)
(* question in hundredths, `vec` its EMBED_1024 (<<>> is NULL, and the      *)
(* similarity of such a row is NULL too).                                   *)

MaxAskK == 2

MmrLambda == 7
KwBonus == 5

AskSlots ==
    <<[CHUNK_ID |-> 1, meeting |-> "m1", title |-> "A", customer |-> "acme", words |-> {"A"}],
      [CHUNK_ID |-> 2, meeting |-> "m1", title |-> "A", customer |-> "acme", words |-> {}],
      [CHUNK_ID |-> 3, meeting |-> "m2", title |-> "B", customer |-> "bolt", words |-> {}]>>

AskRow(slot, sim, vec) ==
    [CHUNK_ID |-> slot.CHUNK_ID, meeting |-> slot.meeting, title |-> slot.title,
     customer |-> slot.customer, words |-> slot.words, sim |-> sim, vec |-> vec]

\* The rows a slot may hold: none, one without a vector, one with a vector.
SlotRows(slot) ==
    {{}, {AskRow(slot, 0, <<>>)}}
    \cup {{AskRow(slot, s, v)} : s \in {10, 90}, v \in {<<5, 0>>, <<3, 4>>}}

AskTables ==
    {a \cup b \cup c : a \in SlotRows(AskSlots[1]), b \in SlotRows(AskSlots[2]),
                       c \in SlotRows(AskSlots[3])}

\* body.scope: undefined, or an object with any of the keys meeting, customer
\* and meeting_id (a key retrieveChunks does not read).
NoScope == [given |-> FALSE, meeting |-> NULL, customer |-> NULL, meeting_id |-> NULL]

AskScopes ==
    {NoScope}
    \cup [given : {TRUE}, meeting : {NULL, "A"}, customer : {NULL, "bolt"},
          meeting_id : {NULL, "m2"}]

AskBodies ==
    {[kind |-> "badjson"], [kind |-> "noquestion"]}
    \cup {[kind |-> "question", scope |-> s, k |-> k] : s \in AskScopes, k \in 1..MaxAskK}

AskIdle(table) ==
    [table |-> table, pc |-> "idle", method |-> NULL, authorized |-> FALSE,
     scope |-> NoScope, k |-> 0, conn |-> "none", failed |-> NULL, queried |-> FALSE,
     rows |-> <<>>,
     pool |-> <<>>, chosen |-> <<>>, status |-> 0, error |-> NULL, sources |-> <<>>]

\* The calls of the handler that the environment may fail.
AskFaults == {"parse", "connect", "embed", "query", "vectors", "final", "complete"}

\* `WHERE CHUNK_ID IN ()`, the statement built from an empty id list, is a
\* SQL compilation error: the call is rejected whatever the store holds.
EmptyInList == "empty_in_list"

\* res.status(status).json(...)
AskRespond(a, status, error, sources) ==
    [a EXCEPT !.pc = "done", !.status = status, !.error = error, !.sources = sources]

\* A call of retrieveChunks rejected: finally { conn.destroy() }, then the
\* handler's catch answers 500 ask_failed.
AskThrow(a, call) ==
    AskRespond([a EXCEPT !.conn = "destroyed", !.failed = call], 500, "ask_failed", <<>>)

\* retrieveChunks returned []: the handler answers 200 with no sources.
AskNoContext(a) ==
    AskRespond([a EXCEPT !.conn = "destroyed"], 200, NULL, <<>>)

\* WHERE (:meeting IS NULL OR MEETING_TITLE ILIKE '%' || :meeting || '%')
\*   AND (:customer IS NULL OR CUSTOMER ILIKE '%' || :customer || '%')
InScope(row, scope) ==
    /\ scope.meeting = NULL \/ row.title = scope.meeting
    /\ scope.customer = NULL \/ row.customer = scope.customer

\* kw_bonus: 0.05 for each scope term found in TEXT or SECTION_TITLE
KwBonusOf(row, scope) ==
    (IF scope.meeting # NULL /\ scope.meeting \in row.words THEN KwBonus ELSE 0)
    + (IF scope.customer # NULL /\ scope.customer \in row.words THEN KwBonus ELSE 0)

\* SCORED: the rows in scope with their keyword bonus
Scored(table, scope) ==
    {[CHUNK_ID |-> x.CHUNK_ID, meeting |-> x.meeting, title |-> x.title,
      customer |-> x.customer, words |-> x.words, sim |-> x.sim, vec |-> x.vec,
      kw |-> KwBonusOf(x, scope)] : x \in {y \in table : InScope(y, scope)}}

\* ORDER BY score DESC: a NULL score sorts first
RanksBefore(a, b) == a.vec = <<>> \/ (b.vec # <<>> /\ Score(a) >= Score(b))

\* The row lists exec(conn, scopeSQL, scopeBinds) may resolve to.
ScopeQueryResults(table, scope, k) ==
    LET scored == Scored(table, scope)
        meets  == {x.meeting : x \in scored}
    IN  UNION {UNION {{o \in Orderings(out) :
                            \A i, j \in 1..Len(o) : i < j => RanksBefore(o[i], o[j])} :
                      out \in TopByScore(Qualify(scored, choice), FetchLimit(k))} :
               choice \in {c \in [meets -> SUBSET scored] :
                              \A m \in meets :
                                  c[m] \in TopByScore({x \in scored : x.meeting = m}, PerDocCap)}}

\* After the scoped query: `if (rows.length === 0) return []`, else go on to
\* the vector fetch.
AfterQueryNoReturn(a, rows) ==
    [a EXCEPT !.queried = TRUE, !.rows = rows, !.pc = "vectors"]

AfterQuery(a, rows) ==
    IF Len(rows) = 0 THEN AskNoContext([a EXCEPT !.queried = TRUE, !.rows = rows])
    ELSE [a EXCEPT !.queried = TRUE, !.rows = rows, !.pc = "vectors"]

\* vectorMap.get(id) || []
VectorOf(table, id) ==
    IF \E x \in table : x.CHUNK_ID = id /\ x.vec # <<>>
    THEN (CHOOSE x \in table : x.CHUNK_ID = id).vec
    ELSE <<>>

\* rows.map(r => ({CHUNK_ID, sim: r.score, vec})) before the filter
DocsOf(table, rows) ==
    [i \in 1..Len(rows) |->
        [CHUNK_ID |-> rows[i].CHUNK_ID,
         sim |-> IF rows[i].vec = <<>> THEN 0 ELSE Score(rows[i]),
         vec |-> VectorOf(table, rows[i].CHUNK_ID)]]

\* .filter(d => d.vec.length > 0)
RECURSIVE WithVectors(_)
WithVectors(docs) ==
    IF docs = <<>> THEN <<>>
    ELSE IF Len(Head(docs).vec) > 0 THEN <<Head(docs)>> \o WithVectors(Tail(docs))
    ELSE WithVectors(Tail(docs))

\* finalRows.map((row, idx) => ({id, meetingId, ..., score: finalChunks[idx]?.sim || 0}))
ResultsOf(finalRows, finalChunks) ==
    [i \in 1..Len(finalRows) |->
        [id |-> finalRows[i].CHUNK_ID, meetingId |-> finalRows[i].meeting,
         meetingTitle |-> finalRows[i].title, customer |-> finalRows[i].customer,
         score |-> IF i <= Len(finalChunks) THEN finalChunks[i].sim ELSE 0]]

InitAsk ==
    /\ StoreIdle
    /\ PureIdle
    /\ ing = NULL
    /\ \E table \in AskTables : ask = AskIdle(table)

\* handler up to `await retrieveChunks(...)`: OPTIONS, method, auth, body.
AskReceive ==
    /\ ask.pc = "idle"
    /\ \E method \in Methods, auth \in BOOLEAN, body \in AskBodies :
        LET a == [ask EXCEPT !.method = method, !.authorized = auth] IN
        ask' = IF method = "OPTIONS" THEN AskRespond(a, 200, NULL, <<>>)
               ELSE IF method # "POST" THEN AskRespond(a, 405, "method_not_allowed", <<>>)
               ELSE IF ~auth THEN AskRespond(a, 401, "unauthorized", <<>>)
               ELSE IF body.kind = "badjson"
                    THEN AskRespond([a EXCEPT !.failed = "parse"], 500, "ask_failed", <<>>)
               ELSE IF body.kind = "noquestion" THEN AskRespond(a, 400, "missing_question", <<>>)
               ELSE [a EXCEPT !.pc = "connect", !.scope = body.scope, !.k = body.k]
    /\ UNCHANGED <<storeVars, pureVars, ing>>

\* retrieveChunks: const conn = await getConn(), before the try block.
AskConnect ==
    /\ ask.pc = "connect"
    /\ \E ok \in BOOLEAN :
        ask' = IF ok THEN [ask EXCEPT !.pc = "embed", !.conn = "open"]
               ELSE AskRespond([ask EXCEPT !.failed = "connect"], 500, "ask_failed", <<>>)
    /\ UNCHANGED <<storeVars, pureVars, ing>>

\* retrieveChunks step 1: embed the question; no row is a thrown error.
EmbedQuestion ==
    /\ ask.pc = "embed"
    /\ \E ok \in BOOLEAN :
        ask' = IF ok THEN [ask EXCEPT !.pc = "query"] ELSE AskThrow(ask, "embed")
    /\ UNCHANGED <<storeVars, pureVars, ing>>

\* retrieveChunks step 2: the scope-then-rank query and the empty return.
ScopeQuery ==
    /\ ask.pc = "query"
    /\ \/ ask' = AskThrow(ask, "query")
       \/ \E rows \in ScopeQueryResults(ask.table, ask.scope, ask.k) :
            ask' = AfterQuery(ask, rows)
    /\ UNCHANGED <<storeVars, pureVars, ing>>

\* retrieveChunks steps 3 and 4: the vector fetch, the filter and mmr.
FetchVectors ==
    /\ ask.pc = "vectors"
    /\ \/ ask' = AskThrow(ask, "vectors")
       \/ /\ Len(ask.rows) = 0
          /\ ask' = AskThrow(ask, EmptyInList)
       \/ /\ Len(ask.rows) > 0
          /\ LET docs == WithVectors(DocsOf(ask.table, ask.rows)) IN
             ask' = [ask EXCEPT !.pool = docs, !.chosen = Mmr(docs, ask.k, MmrLambda),
                                !.pc = "final"]
    /\ UNCHANGED <<storeVars, pureVars, ing>>

\* retrieveChunks steps 5 and 6: the final fetch, whose rows come in any
\* order, and the mapping to results; then the handler's empty check.
FetchFinal ==
    /\ ask.pc = "final"
    /\ \/ ask' = AskThrow(ask, "final")
       \/ /\ Len(ask.chosen) = 0
          /\ ask' = AskThrow(ask, EmptyInList)
       \/ /\ Len(ask.chosen) > 0
          /\ \E finalRows \in Orderings({x \in ask.table :
                    \E i \in 1..Len(ask.chosen) : ask.chosen[i].CHUNK_ID = x.CHUNK_ID}) :
                LET results == ResultsOf(finalRows, ask.chosen) IN
                ask' = IF Len(results) = 0 THEN AskNoContext(ask)
                       ELSE [ask EXCEPT !.conn = "destroyed", !.sources = results,
                                        !.pc = "complete"]
    /\ UNCHANGED <<storeVars, pureVars, ing>>

\* handler: the Bedrock call and the 200 answer with its sources.
Complete ==
    /\ ask.pc = "complete"
    /\ \E ok \in BOOLEAN :
        ask' = IF ok THEN AskRespond(ask, 200, NULL, ask.sources)
               ELSE AskRespond([ask EXCEPT !.failed = "complete"], 500, "ask_failed", <<>>)
    /\ UNCHANGED <<storeVars, pureVars, ing>>

NextAsk ==
    \/ AskReceive
    \/ AskConnect
    \/ EmbedQuestion
    \/ ScopeQuery
    \/ FetchVectors
    \/ FetchFinal
    \/ Complete

SpecAsk == InitAsk /\ [][NextAsk]_vars

----------------------------------------------------------------------------
(* The ingest handler, in its two versions: "api" is api/ingest.js, "part"  *)
(* the later version with CORS headers and TEXT columns.  An error message  *)
(* is represented by the set of the phrases the handler's catch block       *)
(* searches for that occur in it.  `stored` is the set of the meetings      *)
(* inserted with a 200 answer so far (history).                             *)

IngestVersions == {"api", "part"}
IngestIds == {"m1", "m2"}

\* req.headers.authorization: absent or without "Bearer ", a wrong key, the key
AuthHeaders == {"none", "wrong", "right"}

\* A body that is not JSON, is null or lacks a required field; or one that
\* has every required field, with a datetime or participants value that
\* only api/ingest.js rejects, or valid for both versions.
IngestBodies ==
    {[kind |-> k, meeting_id |-> NULL] : k \in {"badjson", "null", "missing_field"}}
    \cup {[kind |-> k, meeting_id |-> "m2"] :
                k \in {"bad_datetime", "participants_not_array", "valid"}}

\* What the message of an error raised by the Snowflake driver may contain.
DriverTexts == {{}, {"Invalid"}}

EnvMissingMsg == {"Missing required"}
NoBearerMsg == {"Invalid authorization", "Invalid"}
WrongKeyMsg == {"Invalid API key", "Invalid"}
MissingFieldsMsg == {"Missing required"}
BadDatetimeMsg == {"Invalid"}
NotArrayMsg == {}
TypeErrorMsg == {}
KeyConfigMsg == {}

\* The catch block of the handler: 401, 400 or 500 by the text of the message.
ErrorStatus(msg) ==
    IF "Invalid authorization" \in msg \/ "Invalid API key" \in msg THEN 401
    ELSE IF "Missing required" \in msg \/ "Invalid" \in msg THEN 400
    ELSE 500

\* validateEnvironment: <<>>, or the message of the error it throws
ValidateEnvironment(envOk) == IF envOk THEN <<>> ELSE <<EnvMissingMsg>>

\* validateApiKey
ValidateApiKey(auth) ==
    IF auth = "none" THEN <<NoBearerMsg>>
    ELSE IF auth = "wrong" THEN <<WrongKeyMsg>>
    ELSE <<>>

\* validatePayload (preceded by normalizeParticipants in version "part"):
\* a null payload is a TypeError in both; only "api" checks datetime and
\* participants.
ValidatePayload(version, body) ==
    IF body.kind = "null" THEN <<TypeErrorMsg>>
    ELSE IF body.kind = "missing_field" THEN <<MissingFieldsMsg>>
    ELSE IF version = "api" /\ body.kind = "bad_datetime" THEN <<BadDatetimeMsg>>
    ELSE IF version = "api" /\ body.kind = "participants_not_array" THEN <<NotArrayMsg>>
    ELSE <<>>

\* The PARTICIPANTS type each version creates and expects.
OwnType(version) == IF version = "api" THEN "ARRAY" ELSE "TEXT"

NoTable == [exists |-> FALSE, type |-> NULL, rows |-> {}]

IngestTables ==
    {NoTable} \cup [exists : {TRUE}, type : {"ARRAY", "TEXT"}, rows : {{}, {"m1"}}]

IngestIdle(version, envOk, table) ==
    [version |-> version, envOk |-> envOk, table |-> table, table0 |-> table,
     pc |-> "idle", method |-> NULL, auth |-> "none", meeting_id |-> NULL,
     conn |-> "none", status |-> 0, message |-> {}, cause |-> NULL, stored |-> {}]

\* res.status(status).json(...) without an error
IngestRespond(g, status, cause) ==
    [g EXCEPT !.pc = "done", !.status = status, !.cause = cause]

\* An error thrown before the connection exists, answered by the catch block.
IngestThrow(g, msg, cause) ==
    [g EXCEPT !.pc = "done", !.status = ErrorStatus(msg), !.message = msg, !.cause = cause]

\* An error thrown with the connection open: connection.destroy(), rethrow.
IngestThrowConnected(g, msg) ==
    IngestThrow([g EXCEPT !.conn = "destroyed"], msg, "store")

InitIngest ==
    /\ StoreIdle
    /\ PureIdle
    /\ ask = NULL
    /\ \E version \in IngestVersions, envOk \in BOOLEAN, table \in IngestTables :
            ing = IngestIdle(version, envOk, table)

\* handler up to `await createSnowflakeConnection()`
IngestReceive ==
    /\ ing.pc = "idle"
    /\ \E method \in Methods, auth \in AuthHeaders, body \in IngestBodies :
        LET g   == [ing EXCEPT !.method = method, !.auth = auth]
            env == ValidateEnvironment(g.envOk)
            key == ValidateApiKey(auth)
            pay == ValidatePayload(g.version, body)
        IN  ing' = IF g.version = "part" /\ method = "OPTIONS"
                        THEN IngestRespond(g, 200, "preflight")
                   ELSE IF method # "POST" THEN IngestRespond(g, 405, "method")
                   ELSE IF env # <<>> THEN IngestThrow(g, env[1], "config")
                   ELSE IF key # <<>> THEN IngestThrow(g, key[1], "auth")
                   ELSE IF body.kind = "badjson" THEN IngestRespond(g, 400, "payload")
                   ELSE IF pay # <<>> THEN IngestThrow(g, pay[1], "payload")
                   ELSE [g EXCEPT !.pc = "connect", !.meeting_id = body.meeting_id]
    /\ UNCHANGED <<storeVars, pureVars, ask>>

\* createSnowflakeConnection: the private key, then connection.connect
CreateSnowflakeConnection ==
    /\ ing.pc = "connect"
    /\ \/ ing' = IngestThrow(ing, KeyConfigMsg, "key")
       \/ \E text \in DriverTexts : ing' = IngestThrow(ing, text, "store")
       \/ ing' = [ing EXCEPT !.pc = "check", !.conn = "open"]
    /\ UNCHANGED <<storeVars, pureVars, ask>>

\* ensureTableExists: the INFORMATION_SCHEMA query and what follows from it
EnsureTableExists ==
    /\ ing.pc = "check"
    /\ \/ /\ ing.version = "api"
          /\ ing' = [ing EXCEPT !.pc = "create"]
       \/ /\ ing.version = "part"
          /\ \E text \in DriverTexts : ing' = IngestThrowConnected(ing, text)
       \/ ing' = IF ~ing.table.exists THEN [ing EXCEPT !.pc = "create"]
                 ELSE IF ing.table.type # OwnType(ing.version) THEN [ing EXCEPT !.pc = "drop"]
                 ELSE [ing EXCEPT !.pc = "insert"]
    /\ UNCHANGED <<storeVars, pureVars, ask>>

\* dropAndRecreateTable: DROP TABLE IF EXISTS MEETINGS
DropAndRecreateTable ==
    /\ ing.pc = "drop"
    /\ \/ \E text \in DriverTexts : ing' = IngestThrowConnected(ing, text)
       \/ ing' = [ing EXCEPT !.table = NoTable, !.pc = "create"]
    /\ UNCHANGED <<storeVars, pureVars, ask>>

\* createNewTable: CREATE TABLE MEETINGS, an error when the table exists
CreateNewTable ==
    /\ ing.pc = "create"
    /\ \/ \E text \in DriverTexts : ing' = IngestThrowConnected(ing, text)
       \/ /\ ~ing.table.exists
          /\ ing' = [ing EXCEPT !.pc = "insert",
                        !.table = [exists |-> TRUE, type |-> OwnType(ing.version), rows |-> {}]]
    /\ UNCHANGED <<storeVars, pureVars, ask>>

\* insertMeeting, connection.destroy() and the 200 answer
InsertMeeting ==
    /\ ing.pc = "insert"
    /\ \/ \E text \in DriverTexts : ing' = IngestThrowConnected(ing, text)
       \/ /\ ing.table.exists
          /\ ing' = IngestRespond(
                        [ing EXCEPT !.table.rows = @ \cup {ing.meeting_id},
                                    !.stored = @ \cup {ing.meeting_id},
                                    !.conn = "destroyed"], 200, NULL)
    /\ UNCHANGED <<storeVars, pureVars, ask>>

\* The next request arrives after the answer, handled by either version of
\* the handler over the table as the last request left it.
IngestNext ==
    /\ ing.pc = "done"
    /\ \E version \in IngestVersions, envOk \in BOOLEAN :
            ing' = [IngestIdle(version, envOk, ing.table) EXCEPT !.stored = ing.stored]
    /\ UNCHANGED <<storeVars, pureVars, ask>>

NextIngest ==
    \/ IngestReceive
    \/ CreateSnowflakeConnection
    \/ EnsureTableExists
    \/ DropAndRecreateTable
    \/ CreateNewTable
    \/ InsertMeeting
    \/ IngestNext

SpecIngest == InitIngest /\ [][NextIngest]_vars

----------------------------------------------------------------------------
(* Claims about the rechunk handler, checked under Spec *)

\* Request r answered, and it was a backfill whose meeting list was fetched.
BackfillAnswered(r) ==
    req[r].pc = "done" /\ req[r].kind = "backfill" /\ req[r].selected # <<>>

\* C2: in a multi-document backfill a failure while processing one document
\* never aborts the batch: the answer holds one outcome per selected document.
C2_BackfillContinuesPastFailure ==
    \A r \in Reqs :
        BackfillAnswered(r) =>
            /\ req[r].status = 200
            /\ Len(req[r].results) = Len(req[r].selected)
            /\ \A i \in 1..Len(req[r].selected) :
                    req[r].results[i].meeting_id = req[r].selected[i]

\* C3: a replace of a document whose stored passages are already the ones built
\* from its unchanged content inserts zero new passages.
C3_RerunInsertsNothing ==
    \A r \in Reqs, m \in MeetingIds :
        (InReplace(r, m) /\ solo[r] /\ Built(m) # {} /\ before[r] = Built(m))
            => req[r].idx = 0

\* Request r's replace of meeting m returns successfully in this step.
ReplaceReturns(r, m) ==
    /\ InReplace(r, m)
    /\ Len(req'[r].results) = Len(req[r].results) + 1

\* C4: a replace that runs alone and succeeds after an earlier replace of the
\* document failed part-way leaves exactly the passages built from the chunk
\* list: none twice, none left over from the earlier run.
C4_RetryLeavesExactlyNewPassages ==
    [][\A r \in Reqs, m \in MeetingIds :
          (ReplaceReturns(r, m) /\ solo[r] /\ dirty[m])
              => /\ Stored(m)' = Built(m)
                 /\ Cardinality(RowsOf(m)') = Cardinality(Built(m))]_vars

\* A replace of m succeeded alone, after an earlier replace of m had failed part-way.
C4_Witness ==
    \E r \in Reqs, m \in MeetingIds :
        /\ dirty[m] /\ solo[r]
        /\ req[r].pc = "done" /\ req[r].status = 200 /\ req[r].kind = "meeting"
        /\ Len(req[r].results) = 1
        /\ req[r].results[1].meeting_id = m
        /\ req[r].results[1].chunks = 2
        /\ Stored(m) = Built(m)

\* C5: at most one replace per document is in flight, and once two rechunks of
\* the same meeting have both succeeded the passages are those of one replace.
C5_OneReplaceInFlightPerDocument ==
    /\ \A m \in MeetingIds, r1, r2 \in Reqs :
            r1 # r2 => ~(InReplace(r1, m) /\ InReplace(r2, m))
    /\ \A m \in MeetingIds :
            (\A r \in Reqs :
                /\ req[r].pc = "done" /\ req[r].status = 200 /\ req[r].kind = "meeting"
                /\ req[r].results # <<>> /\ req[r].results[1].meeting_id = m
                /\ req[r].results[1].skipped = NULL)
            => /\ Stored(m) = Built(m)
               /\ Cardinality(RowsOf(m)) = Cardinality(Built(m))

\* C6: replace is atomic per document: while a replace runs alone, and after it
\* failed, the stored passages of the document are the complete set from before
\* the call or the complete new set.
C6_ReplaceIsAtomic ==
    \A r \in Reqs, m \in MeetingIds :
        ((InReplace(r, m) \/ FailedInReplace(r, m)) /\ solo[r])
            => Stored(m) \in {before[r], Built(m)}

\* C7: no two stored passages of one document have the same content hash.
C7_HashUniquePerDocument ==
    \A c1, c2 \in chunks :
        (c1.meeting = c2.meeting /\ c1.hash = c2.hash) => c1 = c2

----------------------------------------------------------------------------
(* Claims about chunkBySentences, checked under SpecChunk *)

\* A text without its white space.
RECURSIVE StripSpace(_)
StripSpace(str) ==
    IF str = <<>> THEN <<>>
    ELSE IF IsSpace(Head(str)) THEN StripSpace(Tail(str))
    ELSE <<Head(str)>> \o StripSpace(Tail(str))

\* Chunk i of a run without the overlap seed it started from.
NonOverlapPart(run, i) ==
    LET text == StripSpace(run.chunks[i].text)
        seed == StripSpace(run.seeds[i])
    IN  Slice(text, Min(Len(seed), Len(text)), Len(text))

RECURSIVE ConcatNonOverlap(_, _)
ConcatNonOverlap(run, i) ==
    IF i > Len(run.chunks) THEN <<>>
    ELSE NonOverlapPart(run, i) \o ConcatNonOverlap(run, i + 1)

\* C8: the chunks, each without the overlap seed carried over from its
\* predecessor, concatenate to the source text up to white space (stated for
\* targetTokens >= 1 and overlapTokens < targetTokens).
C8_ChunksCoverSource ==
    (chunkOut # <<>> /\ chunkIn.targetTokens >= 1
        /\ chunkIn.overlapTokens < chunkIn.targetTokens)
        => ConcatNonOverlap(chunkOut[1], 1) = StripSpace(chunkIn.text)

----------------------------------------------------------------------------
(* Claims about mmr, checked under SpecMmr *)

\* C1: mmr returns exactly min(finalK, poolSize) candidates with pairwise
\* distinct ids; a pool of at most finalK candidates is returned whole.
C1_MmrSize ==
    mmrOut # <<>> =>
        LET out == mmrOut[1] IN
        /\ Len(out) = Min(mmrIn.k, Len(mmrIn.docs))
        /\ \A i, j \in 1..Len(out) : i # j => out[i].CHUNK_ID # out[j].CHUNK_ID
        /\ Len(mmrIn.docs) <= mmrIn.k => Range(out) = Range(mmrIn.docs)

\* The candidates chosen before position j of the output.
ChosenBefore(out, j) == SubSeq(out, 1, j - 1)

\* The candidates still in the pool when position j of the output is chosen,
\* the one chosen there excluded.
OthersLeft(out, j) ==
    {d \in Range(mmrIn.docs) : \A i \in 1..j : out[i].CHUNK_ID # d.CHUNK_ID}

\* out[j] is the second chosen of two candidates of equal relevance and cosine 1.0.
SecondOfTwins(out, j) ==
    \E i \in 1..(j - 1) : out[i].sim = out[j].sim /\ Cos(out[i].vec, out[j].vec) = 100

\* C9 as stated: for lambda < 1, the second of two such candidates is not chosen
\* while another candidate of non-zero relevance is still in the pool.
C9_TwinsAfterAllNonzero ==
    (mmrOut # <<>> /\ mmrIn.lambda < 10) =>
        \A j \in 1..Len(mmrOut[1]) :
            SecondOfTwins(mmrOut[1], j) =>
                \A d \in OthersLeft(mmrOut[1], j) : d.sim = 0

\* C9 amended: for lambda < 1, the second of two such candidates is not chosen
\* while the pool still holds a candidate of at least their relevance whose
\* similarity to every chosen candidate is below 1.0.
C9_TwinsAfterLessRedundant ==
    (mmrOut # <<>> /\ mmrIn.lambda < 10) =>
        \A j \in 1..Len(mmrOut[1]) :
            SecondOfTwins(mmrOut[1], j) =>
                \A d \in OthersLeft(mmrOut[1], j) :
                    ~(/\ d.sim >= mmrOut[1][j].sim
                      /\ SimToChosen(d, ChosenBefore(mmrOut[1], j)) < 100)

\* Both twins were chosen, the second one while the pool still held a candidate
\* of non-zero relevance that is less similar to the chosen ones.
C9_Witness ==
    /\ mmrOut # <<>> /\ mmrIn.lambda < 10
    /\ \E j \in 1..Len(mmrOut[1]) :
        /\ SecondOfTwins(mmrOut[1], j)
        /\ \E d \in OthersLeft(mmrOut[1], j) :
                d.sim > 0 /\ SimToChosen(d, ChosenBefore(mmrOut[1], j)) < 100

----------------------------------------------------------------------------
(* Claims about the candidate pool, checked under SpecPool *)

\* The pool holds at most 6 candidates of any meeting, and they are that
\* meeting's highest combined scores.
PoolCapped(out) ==
    \A m \in PoolMeetings :
        /\ Cardinality({x \in out : x.meeting = m}) <= 6
        /\ \A x \in out, y \in poolIn.rows \ out :
                (x.meeting = m /\ y.meeting = m) => Score(x) >= Score(y)

\* The pool holds B's candidate and at most 6 of A's.
PoolHoldsB(out) ==
    /\ \E x \in out : x.meeting = "B"
    /\ Cardinality({x \in out : x.meeting = "A"}) <= 6

----------------------------------------------------------------------------
(* Further claims about the rechunk handler, checked under Spec *)

\* C13: the embedding UPDATE computes vectors only for the rows of the
\* meeting whose vector is unset, also when it runs as the retry of a
\* rechunk whose embedding step failed: the vector of every stored passage
\* is the vector of its text and has been computed exactly once.
C13_VectorsComputedOnce ==
    \A c \in chunks : c.embed # <<>> => c.embed = <<"vec", c.text, 1>>

\* A rechunk of a meeting failed in its embedding step, and a later rechunk
\* of the meeting, overlapping no other, gave every passage its vector.
C13_Witness ==
    \E r1, r2 \in Reqs : \E m \in MeetingIds :
        /\ r1 # r2
        /\ FailedInReplace(r1, m) /\ req[r1].detail = "embed"
        /\ req[r2].pc = "done" /\ req[r2].status = 200 /\ solo[r2]
        /\ \E i \in 1..Len(req[r2].results) :
                req[r2].results[i].meeting_id = m /\ req[r2].results[i].chunks > 0
        /\ RowsOf(m) # {}
        /\ \A c \in RowsOf(m) : c.embed # <<>>

\* Request r is deriving the content hash of the chunk at req[r].pos.
Hashing(r) == req[r].pc \in {"check", "insert"}

\* The hash insertChunks derives in request r for its current chunk.
DerivedHash(r) ==
    ContentHash(HeaderizedText(req[r].meta, req[r].list[req[r].pos], req[r].idx))

\* C14: two runs of insertChunks over the same chunk list (chunkBySentences
\* of the same transcript) and the same meeting metadata derive the same
\* content hash for the same chunk.
C14_SameChunksSameHashes ==
    \A r1, r2 \in Reqs :
        (/\ Hashing(r1) /\ Hashing(r2)
         /\ req[r1].list = req[r2].list /\ req[r1].meta = req[r2].meta
         /\ req[r1].pos = req[r2].pos)
        => DerivedHash(r1) = DerivedHash(r2)

\* Request r is a rechunk of one meeting id that MEETINGS does not hold.
TargetsAbsent(r) ==
    /\ req[r].kind = "meeting"
    /\ \E m \in MeetingIds :
        /\ ~meetings[m].present
        /\ \/ req[r].todo # <<>> /\ Head(req[r].todo) = m
           \/ req[r].results # <<>> /\ req[r].results[1].meeting_id = m

\* The `detail` of a 500 answer caused by a call that failed before or in
\* fetchTranscript.
EarlyFailures == {"connect", "ensure", "alter", "fetch"}

\* C20: a rechunk of a meeting id absent from the store never enters
\* insertChunks and returns no result; unless a call before it fails, it is
\* answered 500 meeting_not_found; and no step of it deletes or inserts a
\* passage of any document.
C20_AbsentMeetingNotFound ==
    /\ [](\A r \in Reqs : TargetsAbsent(r) =>
            /\ req[r].pc \notin ReplacePcs
            /\ req[r].results = <<>>
            /\ req[r].pc = "done" =>
                    /\ req[r].status = 500
                    /\ req[r].detail \in EarlyFailures \cup {"meeting_not_found"})
    /\ [][\A r \in Reqs : (TargetsAbsent(r) /\ req[r]' # req[r]) => chunks' = chunks]_vars

\* A rechunk of an absent meeting was answered meeting_not_found while the
\* store holds passages of another document.
C20_Witness ==
    \E r \in Reqs :
        /\ TargetsAbsent(r)
        /\ req[r].pc = "done" /\ req[r].status = 500
        /\ req[r].detail = "meeting_not_found"
        /\ chunks # {}

----------------------------------------------------------------------------
(* Further claims about chunkBySentences, checked under SpecChunk *)

\* The text consists of white space only (or is empty).
IsBlankText(text) == \A i \in 1..Len(text) : IsSpace(text[i])

\* C15: an empty or white-space-only text yields zero chunks, and
\* processOne answers such a transcript with chunks 0 and
\* skipped "empty_transcript" instead of an error.
C15_BlankTextNoChunks ==
    (Len(chunkOut) = 2 /\ IsBlankText(chunkIn.text)) =>
        /\ chunkOut[1].chunks = <<>>
        /\ chunkOut[2] = [meeting_id |-> "m1", chunks |-> 0, skipped |-> "empty_transcript"]

\* Both functions were applied to a text of two or more white-space characters.
C15_Witness ==
    /\ Len(chunkOut) = 2 /\ IsBlankText(chunkIn.text) /\ Len(chunkIn.text) >= 2
    /\ chunkIn.targetTokens >= 1
    /\ chunkOut[2].skipped = "empty_transcript"

\* The sentences of a text: the non-empty trimmed pieces of the split.
RECURSIVE Pieces(_)
Pieces(sentences) ==
    IF sentences = <<>> THEN <<>>
    ELSE IF Trim(Head(sentences)) = <<>> THEN Pieces(Tail(sentences))
    ELSE <<Trim(Head(sentences))>> \o Pieces(Tail(sentences))

\* The sentences joined with single spaces.
RECURSIVE JoinPieces(_)
JoinPieces(pieces) ==
    IF pieces = <<>> THEN <<>>
    ELSE IF Len(pieces) = 1 THEN pieces[1]
    ELSE pieces[1] \o <<" ">> \o JoinPieces(Tail(pieces))

\* C19: when the sentences of a text, joined with single spaces, are
\* estimated below targetTokens (ceil(length / 4) < targetTokens), the text
\* has exactly one chunk and its text is that join: every sentence, in
\* source order; with the handler's 1000 and 150 every text of the model
\* that has a sentence has one chunk.
C19_ShortTextOneChunk ==
    LET pieces == Pieces(SplitSentences(chunkIn.text))
        joined == JoinPieces(pieces)
    IN  /\ (/\ chunkOut # <<>> /\ pieces # <<>>
             /\ Len(joined) <= CharsPerToken * (chunkIn.targetTokens - 1))
            => /\ Len(chunkOut[1].chunks) = 1
               /\ chunkOut[1].chunks[1].text = joined
        /\ (Len(chunkOut) = 2 /\ pieces # <<>>)
            => chunkOut[2] = [meeting_id |-> "m1", chunks |-> 1, skipped |-> NULL]

\* A text of two sentences below the target was chunked.
C19_Witness ==
    LET pieces == Pieces(SplitSentences(chunkIn.text)) IN
    /\ Len(chunkOut) = 2 /\ Len(pieces) >= 2
    /\ Len(JoinPieces(pieces)) <= CharsPerToken * (chunkIn.targetTokens - 1)
    /\ Len(chunkOut[1].chunks) = 1

----------------------------------------------------------------------------
(* Claims about the ask handler and retrieveChunks, checked under SpecAsk *)

\* Candidates of the scoped query whose vector the vector fetch resolved.
Resolved(a) == {i \in 1..Len(a.rows) : VectorOf(a.table, a.rows[i].CHUNK_ID) # <<>>}

\* The environment rejected none of the handler's calls.
NoFault == ask.failed \notin AskFaults

\* C11: a candidate whose vector the vector fetch does not resolve is left
\* out of the pool mmr runs on, never kept with an empty vector, and the
\* retrieval then completes normally with the candidates that remain,
\* possibly none: when no call is rejected by the environment the request
\* is answered 200.
C11_UnresolvedDroppedRetrievalCompletes ==
    /\ \A i \in 1..Len(ask.pool) : ask.pool[i].vec # <<>>
    /\ ask.pc \in {"final", "complete"} => Len(ask.pool) = Cardinality(Resolved(ask))
    /\ (ask.pc = "done" /\ ask.queried /\ NoFault) => ask.status = 200

\* C12: a scoped query that matches no passage ends in retrieveChunks
\* returning the empty list and the handler answering 200 with no sources
\* and no error, and every call the environment fails is answered
\* 500 ask_failed, so the two outcomes differ.
C12_NoMatchIsNotAnError ==
    /\ (ask.pc = "done" /\ ask.queried /\ ask.rows = <<>>) =>
            /\ ask.status = 200 /\ ask.error = NULL
            /\ ask.sources = <<>> /\ ask.failed = NULL
    /\ (ask.pc = "done" /\ ask.failed \in AskFaults) =>
            ask.status = 500 /\ ask.error = "ask_failed"

\* A scope that excludes every row of a non-empty table was answered.
C12_Witness ==
    /\ ask.pc = "done" /\ ask.queried /\ ask.rows = <<>>
    /\ ask.table # {} /\ ask.scope.given
    /\ ask.status = 200

\* C16: every source of a 200 answer satisfies each scope dimension the
\* request supplied, the document id included.
C16_SourcesSatisfyEveryScopeDimension ==
    (ask.pc = "done" /\ ask.status = 200) =>
        \A i \in 1..Len(ask.sources) :
            /\ ask.scope.meeting # NULL => ask.sources[i].meetingTitle = ask.scope.meeting
            /\ ask.scope.customer # NULL => ask.sources[i].customer = ask.scope.customer
            /\ ask.scope.meeting_id # NULL => ask.sources[i].meetingId = ask.scope.meeting_id

----------------------------------------------------------------------------
(* Claims about the ingest handler, checked under SpecIngest *)

\* C17: the handler opens no connection and changes no data unless the
\* request is a POST carrying the configured key; every non-POST request
\* is answered 405 and every POST with a missing or wrong key 401.
C17_OnlyAuthorizedPostPassesGate ==
    /\ (ing.conn # "none" \/ ing.table # ing.table0 \/ ing.pc \notin {"idle", "done"}) =>
            ing.method = "POST" /\ ing.auth = "right"
    /\ (ing.pc = "done" /\ ing.method # "POST") => ing.status = 405
    /\ (ing.pc = "done" /\ ing.method = "POST" /\ ing.auth # "right") => ing.status = 401

\* C18: an invalid payload is answered 400 with the table as it was, and
\* every fault of the server or the database (configuration, key,
\* connection, schema check, create, insert) is answered 500.
C18_FaultsMapToDocumentedStatus ==
    ing.pc = "done" =>
        /\ ing.cause = "payload" => ing.status = 400 /\ ing.table = ing.table0
        /\ ing.cause \in {"config", "key", "store"} => ing.status = 500

----------------------------------------------------------------------------
(* Claims about the order and the frame of insertChunks, checked under Spec *)

\* The meeting request r is processing.
Current(r) == Head(req[r].todo)

\* Request r takes the step: every action moves its position in the handler
\* or in the chunk list.
StepOf(r) == req'[r].pc # req[r].pc \/ req'[r].pos # req[r].pos

\* C21: within one insertChunks the stored steps come in a fixed order: the
\* loop is entered only through the completed DELETE of the meeting's rows,
\* an INSERT follows the hash check of its chunk, the embedding UPDATE is
\* issued only after the loop, nothing of the run follows it, and the UPDATE
\* gives a vector to rows of this meeting whose vector is unset and changes
\* nothing else.
C21_ReplaceStepsInOrder ==
    [][\A r \in Reqs : StepOf(r) =>
        LET pc  == req[r].pc
            npc == req'[r].pc
        IN  /\ chunks' # chunks => pc \in {"delete", "insert", "embed"}
            /\ (npc = "check" /\ req'[r].pos = 1) =>
                    /\ pc = "delete"
                    /\ chunks' = {c \in chunks : c.meeting # Current(r)}
            /\ (npc = "check" /\ req'[r].pos > 1) => pc \in {"check", "insert"}
            /\ npc = "insert" => pc = "check" /\ chunks' = chunks
            /\ npc = "delete" => pc = "meta"
            /\ npc = "embed" => pc \in {"check", "insert"} /\ req'[r].pos > Len(req[r].list)
            /\ pc = "insert" =>
                    \A c \in chunks' \ chunks : c.meeting = Current(r) /\ c.embed = <<>>
            /\ pc = "embed" =>
                    /\ npc \in {"fetch", "done"}
                    /\ \A c \in chunks \ chunks' :
                            /\ c.meeting = Current(r) /\ c.embed = <<>>
                            /\ \E d \in chunks' \ chunks :
                                    d.embed # <<>> /\ [d EXCEPT !.embed = <<>>] = c
                    /\ \A d \in chunks' \ chunks :
                            [d EXCEPT !.embed = <<>>] \in chunks \ chunks']_vars

\* A rechunk stored and embedded two passages of a meeting while a passage
\* of the other meeting was waiting for its vector.
C21_Witness ==
    \E r \in Reqs, m \in MeetingIds :
        /\ req[r].pc = "done" /\ req[r].status = 200 /\ req[r].kind = "meeting"
        /\ req[r].results = <<[meeting_id |-> m, chunks |-> 2, skipped |-> NULL]>>
        /\ \A c \in RowsOf(m) : c.embed # <<>>
        /\ \E c \in chunks : c.meeting # m /\ c.embed = <<>>

----------------------------------------------------------------------------
(* Further claims about mmr, checked under SpecMmr *)

\* lambda * relevance - (1 - lambda) * maxSimilarityToChosen, in thousandths
MarginalScore(d, chosen) ==
    mmrIn.lambda * d.sim - (10 - mmrIn.lambda) * SimToChosen(d, chosen)

\* Position of a candidate in the input pool.
InputPos(d) == CHOOSE i \in 1..Len(mmrIn.docs) : mmrIn.docs[i].CHUNK_ID = d.CHUNK_ID

\* C22: the candidate at each position of mmr's result has, among the
\* candidates not chosen before it, the greatest score against the ones
\* chosen before it, and among those of equal score the earliest position in
\* the input pool.
C22_EachStepTakesFirstBest ==
    mmrOut # <<>> =>
        LET out == mmrOut[1] IN
        \A j \in 1..Len(out) :
            /\ \A i \in 1..(j - 1) : out[i].CHUNK_ID # out[j].CHUNK_ID
            /\ out[j] \in Range(mmrIn.docs)
            /\ \A d \in OthersLeft(out, j) :
                LET mine   == MarginalScore(out[j], ChosenBefore(out, j))
                    theirs == MarginalScore(d, ChosenBefore(out, j))
                IN  /\ mine >= theirs
                    /\ mine = theirs => InputPos(out[j]) < InputPos(d)

\* After a first choice, a candidate similar to it was left in the pool with
\* the same score as the second choice.
C22_Witness ==
    /\ mmrOut # <<>> /\ Len(mmrOut[1]) >= 2 /\ mmrIn.lambda < 10
    /\ \E d \in OthersLeft(mmrOut[1], 2) :
            /\ MarginalScore(d, ChosenBefore(mmrOut[1], 2))
                    = MarginalScore(mmrOut[1][2], ChosenBefore(mmrOut[1], 2))
            /\ SimToChosen(d, ChosenBefore(mmrOut[1], 2)) > 0

----------------------------------------------------------------------------
(* Claims about the chunks of chunkBySentences, checked under SpecChunk *)

\* C23: the token count recorded with every chunk is ceil(length of the
\* chunk's text / 4) (stated for targetTokens >= 1).
C23_TokenCountIsOfChunkText ==
    (chunkOut # <<>> /\ chunkIn.targetTokens >= 1) =>
        \A i \in 1..Len(chunkOut[1].chunks) :
            chunkOut[1].chunks[i].tokenCount
                = (Len(chunkOut[1].chunks[i].text) + CharsPerToken - 1) \div CharsPerToken

\* str begins with prefix.
StartsWith(str, prefix) ==
    Len(prefix) <= Len(str) /\ SubSeq(str, 1, Len(prefix)) = prefix

\* The trailing min(length, 4 * overlapTokens) characters of a chunk's text.
TrailingOverlap(text, overlapTokens) ==
    Slice(text, Max(0, Len(text) - overlapTokens * CharsPerToken), Len(text))

\* C24: every chunk before the last one was emitted with an estimate of at
\* least targetTokens, has at most 4 * targetTokens characters, and the
\* chunk after it begins with the trailing min(length, 4 * overlapTokens)
\* characters of its text, leading white space aside (stated for
\* 1 <= targetTokens and overlapTokens <= targetTokens).
C24_NextChunkBeginsWithOverlap ==
    (chunkOut # <<>> /\ chunkIn.targetTokens >= 1
        /\ chunkIn.overlapTokens <= chunkIn.targetTokens) =>
        LET list == chunkOut[1].chunks IN
        \A i \in 1..(Len(list) - 1) :
            /\ list[i].tokenCount >= chunkIn.targetTokens
            /\ Len(list[i].text) <= CharsPerToken * chunkIn.targetTokens
            /\ StartsWith(TrimStart(list[i + 1].text),
                          TrimStart(TrailingOverlap(list[i].text, chunkIn.overlapTokens)))

----------------------------------------------------------------------------
(* Claims about the fields of stored passages, checked under Spec *)

\* C25: a stored passage keeps its id, meeting, index, section fields, text,
\* token count and content hash for as long as it is stored; the only field
\* written after the INSERT is the vector, and only when it was unset; and
\* every row that appears is either such a row or a new one with a fresh id
\* and no vector.
C25_PassageFieldsNeverRewritten ==
    [][/\ \A c \in chunks : \A d \in chunks' :
            d.id = c.id =>
                \/ d = c
                \/ /\ c.embed = <<>> /\ d.embed # <<>>
                   /\ [d EXCEPT !.embed = <<>>] = c
       /\ \A d \in chunks' \ chunks :
            \/ \E c \in chunks : c.id = d.id
            \/ /\ d.id = nextId /\ nextId' > nextId /\ d.embed = <<>>
               /\ \A c \in chunks : c.id < nextId]_vars

\* Two rechunks of one meeting both succeeded and the rows of both are
\* stored with their vectors: the later UPDATE met rows that had a vector.
C25_Witness ==
    \E r1, r2 \in Reqs, m \in MeetingIds :
        /\ r1 # r2
        /\ \A r \in {r1, r2} :
            /\ req[r].pc = "done" /\ req[r].status = 200 /\ req[r].kind = "meeting"
            /\ req[r].results # <<>> /\ req[r].results[1].meeting_id = m
            /\ req[r].results[1].chunks >= 1
        /\ Cardinality(RowsOf(m)) > req[r1].results[1].chunks
        /\ Cardinality(RowsOf(m)) > req[r2].results[1].chunks
        /\ \A c \in RowsOf(m) : c.embed # <<>>

----------------------------------------------------------------------------
(* Further claims about retrieveChunks, checked under SpecAsk *)

\* C26: the tuples retrieveChunks returns are the passages mmr selected, in
\* mmr's order, each with its own combined score, whatever order the final
\* fetch returns its rows in.
C26_TuplesPairPassageWithItsScore ==
    ask.sources # <<>> =>
        /\ Len(ask.sources) = Len(ask.chosen)
        /\ \A i \in 1..Len(ask.sources) :
            /\ ask.sources[i].id = ask.chosen[i].CHUNK_ID
            /\ ask.sources[i].score = ask.chosen[i].sim

----------------------------------------------------------------------------
(* Further claims about the stored passages, checked under Spec *)

\* The sequence indexes of the stored passages of meeting m.
IndexesOf(m) == {c.idx : c \in RowsOf(m)}

\* C27: the stored passages of a meeting have pairwise distinct sequence
\* indexes, which are 0..n-1 for its n stored passages and increase in the
\* order of insertion.
C27_IndexesDistinctAndIncreasing ==
    \A m \in MeetingIds :
        /\ \A c1, c2 \in RowsOf(m) : c1.idx = c2.idx => c1 = c2
        /\ IndexesOf(m) = 0..(Cardinality(RowsOf(m)) - 1)
        /\ \A c1, c2 \in RowsOf(m) : c1.id < c2.id => c1.idx < c2.idx

----------------------------------------------------------------------------
(* Further claims about the ingest handler, checked under SpecIngest *)

\* C28: every meeting that a request inserted with a 200 answer is still a
\* row of MEETINGS, whatever requests either version of the handler has
\* handled since.
C28_StoredMeetingsStay ==
    ing.stored \subseteq ing.table.rows

----------------------------------------------------------------------------
(* Claims about store connections, checked under Spec *)

\* C29: when the rechunk handler has answered, the connection it opened, if
\* any, has been destroyed.
C29_ConnectionDestroyedBeforeAnswer ==
    \A r \in Reqs : req[r].pc = "done" => req[r].conn # "open"

----------------------------------------------------------------------------
(* Claims about the termination of chunkBySentences, checked under SpecChunk *)

\* The number of pieces of the split that hold a character other than
\* white space.
RECURSIVE NonEmptySentences(_)
NonEmptySentences(sentences) ==
    IF sentences = <<>> THEN 0
    ELSE (IF \E i \in 1..Len(Head(sentences)) : ~IsSpace(Head(sentences)[i]) THEN 1 ELSE 0)
         + NonEmptySentences(Tail(sentences))

\* C30: for every text and every targetTokens >= 0 and overlapTokens >= 0,
\* overlapTokens >= targetTokens included, chunkBySentences returns after
\* one iteration of its loop per piece of the split, having emitted at
\* most one chunk per non-empty sentence in the loop (a section id is used
\* up by each) and at most one more in the final flush.
C30_TerminatesWithBoundedChunks ==
    chunkOut # <<>> =>
        LET sentences == SplitSentences(chunkIn.text)
            run       == chunkOut[1]
        IN  /\ run.steps = Len(sentences)
            /\ run.sectionId - 1 <= NonEmptySentences(sentences)
            /\ Len(run.chunks) <= NonEmptySentences(sentences) + 1
            /\ Len(run.chunks) - (run.sectionId - 1) \in {0, 1}

\* A text of two sentences chunked with targetTokens 0 and overlapTokens 2:
\* every sentence flushes, and the overlap kept gives the final chunk.
C30_Witness ==
    /\ chunkOut # <<>>
    /\ chunkIn.targetTokens = 0 /\ chunkIn.overlapTokens = 2
    /\ NonEmptySentences(SplitSentences(chunkIn.text)) = 2
    /\ Len(chunkOut[1].chunks) = 3

====
